---- MODULE Spec2Model ----
(***************************************************************************)
(* Model of the acquisition-and-selection pipeline of Qtrading_us:         *)
(*   modules/stock_data.py  fetch_prices_yf, pick_stocks                   *)
(*   modules/database.py    get_existing_data_range, upsert_prices         *)
(*   main.py                main                                           *)
(*                                                                         *)
(* Calendar dates are pairs <<month, day>>; an ISO date string is such a   *)
(* pair and the string comparison of two ISO dates is the lexicographic    *)
(* comparison of the pairs.  A pandas Timestamp is a record                *)
(* [date, time]; daily bars sit at time 0 (midnight).                      *)
(***************************************************************************)
EXTENDS Integers, Sequences, FiniteSets, Bags, TLC

VARIABLES
    store,                 \* the committed prices table: a bag of rows
    txn,                   \* the table as seen inside the open transaction
    codes,                 \* what get_stock_codes() returns
    today,                 \* datetime.utcnow().date()
    pc,                    \* position of main
    to_fetch,              \* codes_to_fetch
    batch_idx,             \* batch_idx of the batch loop
    attempt,               \* attempt of the retry loop
    all_results,           \* all_results: list of per-ticker slices
    failed_stocks,         \* failed_stocks
    consecutive_failures,  \* consecutive_failures
    sleeps,                \* the time.sleep calls of the run, in order
    result,                \* the table returned by fetch_prices_yf / passed to upsert_prices
    upsert_i,              \* position of the row loop of upsert_prices
    batch_log,             \* per finished batch: how it ended, the tickers whose slices it kept, its attempts
    attempts_made,         \* number of yf.download calls of the run
    prev,                  \* summary of the previous run of main
    yielded,               \* tickers with rows in the table the run's fetch returned
    committed,             \* tickers whose rows the run's upsert committed
    hist,                  \* the price table passed to pick_stocks
    picked,                \* what the last call of pick_stocks did
    error,                 \* the exception that left main, if any
    prices,                \* the rows of the table passed to pick_stocks, in their order
    report                 \* what steps 4 to 7 of main wrote in the run

vars == <<store, txn, codes, today, pc, to_fetch, batch_idx, attempt,
          all_results, failed_stocks, consecutive_failures, sleeps, result,
          upsert_i, batch_log, attempts_made, prev, yielded, committed,
          hist, picked, error, prices, report>>

\* the variables of the selection, which the download and the store leave alone
selVars == <<hist, picked, error, prices, report>>

\* the variables of the download and the store
storeVars == <<store, txn, codes, today, to_fetch, batch_idx, attempt,
               all_results, failed_stocks, consecutive_failures, sleeps,
               result, upsert_i, batch_log, attempts_made, prev, yielded,
               committed>>

---------------------------------------------------------------------------
(* Bounds of the model *)

\* stock_data.py:15 sets BATCH_SIZE = 200; the model runs the same code with
\* batches of 2 so that a run has several batches of several tickers.
BATCH_SIZE == 2
\* length of the list of requested codes (blank entries make the list of
\* requested tickers shorter)
MaxCodes == 3

(* Program constants *)
MAX_RETRIES == 3
INITIAL_DELAY == 1
BATCH_DELAY_MIN == 2
BATCH_DELAY_MAX == 4

---------------------------------------------------------------------------
(* Generic helpers *)

Min(a, b) == IF a <= b THEN a ELSE b

Range(s) == {s[i] : i \in 1..Len(s)}

RECURSIVE Flatten(_)
Flatten(ss) == IF ss = <<>> THEN <<>> ELSE Head(ss) \o Flatten(Tail(ss))

SeqsUpTo(S, n) == UNION {[1..k -> S] : k \in 0..n}

---------------------------------------------------------------------------
(* Dates *)

\* str < str on ISO dates (stock_data.py:46)
IsoLess(a, b) == a[1] < b[1] \/ (a[1] = b[1] /\ a[2] < b[2])

\* pd.to_datetime(df["date"]).dt.date.astype(str)  (database.py:64)
ToDateStr(ts) == ts.date

\* SQL MAX(date) over a non-empty set of ISO strings (database.py:45)
MaxDate(ds) == CHOOSE d \in ds : \A e \in ds : e = d \/ IsoLess(e, d)

\* SQL MIN(date)
MinDate(ds) == CHOOSE d \in ds : \A e \in ds : e = d \/ IsoLess(d, e)

Yesterday == <<1, 31>>
Today == <<2, 1>>
Tomorrow == <<2, 2>>

\* A date is a pair compared as ISO strings are; its first part counts
\* periods of LOOKBACK_DAYS days (config.py:21), so that
\* datetime.utcnow() - timedelta(days=LOOKBACK_DAYS) is one period back
\* (database.py:118).
Cutoff(day) == <<day[1] - 1, day[2]>>

\* a trading day more than LOOKBACK_DAYS and less than 2 * LOOKBACK_DAYS days
\* before today: after target_start (stock_data.py:34), before the cutoff
OldDay == <<0, 31>>

---------------------------------------------------------------------------
(* The market-data source: fixed for the whole behaviour *)

Tickers == {"A", "B", "C"}

\* the raw strings a code list may hold; " " is a blank entry
RawCodes == Tickers \cup {" "}

\* c.strip()  (stock_data.py:38)
Strip(raw) == IF raw = " " THEN "" ELSE raw

\* the trading days for which the source holds a bar of the ticker.  The
\* download is given a start and no end (stock_data.py:94-96), and the date
\* of a bar is the date at the exchange (stock_data.py:109): C is listed
\* where the trading day begins before the UTC day does, so that late in the
\* UTC day the source holds its bar of the next date; B has not traded for
\* more than LOOKBACK_DAYS days.
SourceDays(c) ==
    CASE c = "A" -> {Yesterday, Today}
      [] c = "B" -> {OldDay}
      [] OTHER   -> {Today, Tomorrow}

\* the bar of the source for a ticker and a day
SourceBar(c, d) ==
    [code |-> c, date |-> [date |-> d, time |-> 0],
     open |-> 10 + d[2], high |-> 12 + d[2], low |-> 9 + d[2],
     close |-> 11 + d[2], volume |-> 1000]

\* df[c].reset_index() of a full response: rows in ascending date order
RECURSIVE SortedDays(_)
SortedDays(ds) ==
    IF ds = {} THEN <<>>
    ELSE LET d == MinDate(ds) IN <<d>> \o SortedDays(ds \ {d})

FullSlice(c) ==
    LET days == SortedDays(SourceDays(c))
    IN  [i \in 1..Len(days) |-> SourceBar(c, days[i])]

\* The responses yf.download may give for a batch: a table holding a column
\* group for some of the requested tickers, each with its rows or with none.
Responses(batch) ==
    UNION {[S -> {"rows", "empty"}] : S \in SUBSET Range(batch)}

---------------------------------------------------------------------------
(* Price Store: modules/database.py *)

\* the rows of a table, and the rows of one ticker
Rows(tbl) == BagToSet(tbl)
RowsOf(tbl, c) == {r \in Rows(tbl) : r.code = c}

NoPrev == [started |-> FALSE, crashed |-> FALSE, to_fetch |-> {},
           committed |-> {}, yielded |-> {}, store_end |-> EmptyBag]

\* SELECT code, MIN(date), MAX(date) FROM prices GROUP BY code
ExistingRange(st) ==
    [c \in {r.code : r \in Rows(st)} |->
        LET ds == {r.date : r \in RowsOf(st, c)}
        IN  [min |-> MinDate(ds), max |-> MaxDate(ds)]]

\* the row upsert_prices passes to the INSERT: the date column is the ISO
\* date string of the Timestamp, the other six values are kept
DbRow(row) ==
    [code |-> row.code, date |-> ToDateStr(row.date), open |-> row.open,
     high |-> row.high, low |-> row.low, close |-> row.close,
     volume |-> row.volume]

SameKey(r, q) == r.code = q.code /\ r.date = q.date

\* a table without the key: every INSERT adds a row
InsertOnly(tbl, row) == tbl (+) SetToBag({row})

\* INSERT OR IGNORE: a row whose key is in the table is dropped
InsertOrIgnore(tbl, row) ==
    IF \E r \in Rows(tbl) : SameKey(r, row) THEN tbl
    ELSE tbl (+) SetToBag({row})

\* INSERT OR REPLACE INTO prices ... with PRIMARY KEY(code, date): the rows
\* that conflict on the key are deleted, then the new row is inserted
InsertOrReplace(tbl, row) ==
    LET keep == {r \in Rows(tbl) : ~SameKey(r, row)}
    IN  [r \in keep \cup {row} |-> IF r = row THEN 1 ELSE tbl[r]]

\* a connection in autocommit mode: every executed row is on disk at once
AfterCrashAutocommit(st, tx) == IF tx = EmptyBag THEN st ELSE tx

\* what the database file holds after the process died with a transaction
\* open: the journal restores the committed table
AfterCrash(st, tx) == st

---------------------------------------------------------------------------
(* Freshness Resolver: stock_data.py:33-54 *)

\* the comparison written as max_date <= today
MustFetchNotLater(existing, c, day) ==
    IF c \notin DOMAIN existing THEN TRUE
    ELSE ~IsoLess(day, existing[c].max)

\* stock_data.py:41-47: no historical data, or data outdated
MustFetch(existing, c, day) ==
    IF c \notin DOMAIN existing THEN TRUE
    ELSE IsoLess(existing[c].max, day)

RECURSIVE CodesToFetch(_, _, _)
CodesToFetch(cs, existing, day) ==
    IF cs = <<>> THEN <<>>
    ELSE LET c    == Strip(Head(cs))
             rest == CodesToFetch(Tail(cs), existing, day)
         IN  IF c = "" THEN rest
             ELSE IF MustFetch(existing, c, day) THEN <<c>> \o rest
             ELSE rest

---------------------------------------------------------------------------
(* Batch Fetcher: stock_data.py:56-173 *)

\* the tickers behind the last full batch are left out
NumBatchesFull(tf) == Len(tf) \div BATCH_SIZE

\* stock_data.py:61
NumBatches(tf) == (Len(tf) + BATCH_SIZE - 1) \div BATCH_SIZE

BatchCodes(tf, b) ==
    SubSeq(tf, b * BATCH_SIZE + 1, Min((b + 1) * BATCH_SIZE, Len(tf)))

\* isinstance(df, pd.DataFrame) and c in df, and the slice has a date column
\* and at least one row
Usable(df, c) == c \in DOMAIN df /\ df[c] = "rows"

\* the loop "for c in batch_codes" run over the first k tickers of the batch
RECURSIVE ProcessBatch(_, _, _)
ProcessBatch(batch, df, k) ==
    IF k = 0 THEN [out |-> <<>>, failed |-> <<>>]
    ELSE LET p == ProcessBatch(batch, df, k - 1)
             c == batch[k]
         IN  IF Usable(df, c)
             THEN [out |-> Append(p.out, FullSlice(c)), failed |-> p.failed]
             ELSE [out |-> p.out, failed |-> Append(p.failed, c)]

\* str(e) of the exceptions an attempt may raise
ErrorMsgs ==
    {"Expecting value: line 1 column 1 (char 0)",
     "Failed to parse JSON response", "Read timed out"}

\* "Expecting value" in error_msg or "JSON" in error_msg
RateLimitSignature(msg) ==
    msg \in {"Expecting value: line 1 column 1 (char 0)",
             "Failed to parse JSON response"}

\* every error is given the delay of the rate-limit signature
RetryDelayLong(att, msg) == (att + 1) * 5

RetryDelay(att, msg) ==
    IF RateLimitSignature(msg) THEN (att + 1) * 5 ELSE (att + 1) * 3

\* random.uniform(BATCH_DELAY_MIN, BATCH_DELAY_MAX), whole seconds only
BaseDelays == BATCH_DELAY_MIN..BATCH_DELAY_MAX

\* a time.sleep call: secs * mult2 / 2 seconds
Sleep(why, secs, mult2) == [why |-> why, secs |-> secs, mult2 |-> mult2]

CodesOf(rows) == {rows[i].code : i \in 1..Len(rows)}

\* the except branch without the extend
MarkNothingFailed(fs, batch) == fs

\* failed_stocks.extend(batch_codes)  (stock_data.py:143)
MarkBatchFailed(fs, batch) == fs \o batch

\* the entries of failed_stocks added since the last finished batch
RECURSIVE LoggedFailed(_)
LoggedFailed(log) ==
    IF log = <<>> THEN <<>> ELSE Head(log).failed \o LoggedFailed(Tail(log))

SinceLastBatch(fs) == SubSeq(fs, Len(LoggedFailed(batch_log)) + 1, Len(fs))

\* the wait between batches does not grow with the failures
DelayMultiplierFlat(cf) == 2

\* twice delay_multiplier = 1 + (consecutive_failures * 0.5)
\* (stock_data.py:149)
DelayMultiplier(cf) == 2 + cf

\* stock_data.py:146-173: the wait after a batch, then the next batch or the
\* return of the concatenated table
EndOfBatch(cf, base, slices) ==
    /\ consecutive_failures' = cf
    /\ IF batch_idx < NumBatches(to_fetch) - 1
       THEN /\ sleeps' = Append(sleeps,
                               Sleep("batch", base, DelayMultiplier(cf)))
            /\ batch_idx' = batch_idx + 1
            /\ attempt' = 0
            /\ pc' = "batch"
            /\ UNCHANGED <<result, yielded>>
       ELSE /\ pc' = "returned"
            /\ result' = Flatten(slices)
            /\ yielded' = CodesOf(Flatten(slices))
            /\ UNCHANGED <<sleeps, batch_idx, attempt>>

\* the warm-up wait is made before a single batch too
WarmUpAlways(num_batches) ==
    IF num_batches > 0 THEN <<Sleep("initial", INITIAL_DELAY, 2)>> ELSE <<>>

\* stock_data.py:68-71: time.sleep(INITIAL_DELAY) if num_batches > 1
WarmUp(num_batches) ==
    IF num_batches > 1 THEN <<Sleep("initial", INITIAL_DELAY, 2)>> ELSE <<>>

\* main.py:35-43 and stock_data.py:33-71: ensure_db, get_stock_codes, the
\* Freshness Resolver, and the start of the batch loop
MainStart ==
    /\ pc \in {"idle", "done", "crashed"}
    /\ LET tf == CodesToFetch(codes, ExistingRange(store), today)
       IN  /\ to_fetch' = tf
           /\ IF tf = <<>>
              THEN /\ pc' = "returned"
                   /\ sleeps' = <<>>
              ELSE /\ pc' = "batch"
                   /\ sleeps' = WarmUp(NumBatches(tf))
    /\ result' = <<>>
    /\ batch_idx' = 0
    /\ attempt' = 0
    /\ all_results' = <<>>
    /\ failed_stocks' = <<>>
    /\ consecutive_failures' = 0
    /\ batch_log' = <<>>
    /\ attempts_made' = 0
    /\ yielded' = {}
    /\ committed' = {}
    /\ UNCHANGED selVars
    /\ UNCHANGED <<store, txn, codes, today, upsert_i, prev>>

\* the retry loop makes one attempt more than MAX_RETRIES
AttemptsRemainOneMore(att) == att < MAX_RETRIES

\* the batch is retried until an attempt completes
AttemptsRemainAlways(att) == att >= 0

\* stock_data.py:82 and 137: "for attempt in range(MAX_RETRIES)" has a next
\* turn after the attempt that raised
AttemptsRemain(att) == att < MAX_RETRIES - 1

\* the rows of a completed batch are saved as soon as the batch completes
RECURSIVE StoreAfterBatchSaved(_, _)
StoreAfterBatchSaved(st, rows) ==
    IF rows = <<>> THEN st
    ELSE StoreAfterBatchSaved(InsertOrReplace(st, DbRow(Head(rows))),
                              Tail(rows))

\* stock_data.py:119-124: the rows of a completed batch go to the list
\* all_results; fetch_prices_yf reads the prices table through
\* get_existing_data_range and holds no statement that writes it
StoreAfterBatch(st, rows) == st

\* stock_data.py:82-124 and 146-173: an attempt that runs to the break
AttemptCompletes(df, base) ==
    /\ pc = "batch"
    /\ LET batch == BatchCodes(to_fetch, batch_idx)
           p     == ProcessBatch(batch, df, Len(batch))
       IN  /\ failed_stocks' = failed_stocks \o p.failed
           /\ all_results' = all_results \o p.out
           /\ batch_log' = Append(batch_log,
                  [ok |-> TRUE, got |-> CodesOf(Flatten(p.out)),
                   failed |-> SinceLastBatch(failed_stocks \o p.failed),
                   attempts |-> attempt + 1, codes |-> batch])
           /\ EndOfBatch(0, base, all_results \o p.out)
           /\ store' = StoreAfterBatch(store, Flatten(p.out))
    /\ attempts_made' = attempts_made + 1
    /\ UNCHANGED selVars
    /\ UNCHANGED <<txn, codes, today, to_fetch, upsert_i, prev, committed>>

\* stock_data.py:82-144 and 146-173: an attempt that raises msg after the
\* loop over the response has handled k tickers (k = 0: the download itself
\* raises, or the handling of the first ticker does)
AttemptRaises(df, k, msg, base) ==
    /\ pc = "batch"
    /\ LET batch == BatchCodes(to_fetch, batch_idx)
           p     == ProcessBatch(batch, df, k)
       IN  /\ k < Len(batch)
           /\ IF AttemptsRemain(attempt)
              THEN /\ failed_stocks' = failed_stocks \o p.failed
                   /\ sleeps' = Append(sleeps,
                                  Sleep("retry", RetryDelay(attempt, msg), 2))
                   /\ attempt' = attempt + 1
                   /\ UNCHANGED <<pc, batch_idx, consecutive_failures, result,
                                  batch_log, yielded>>
              ELSE /\ failed_stocks' =
                          MarkBatchFailed(failed_stocks \o p.failed, batch)
                   /\ batch_log' = Append(batch_log,
                          [ok |-> FALSE, got |-> {},
                           failed |-> SinceLastBatch(
                               MarkBatchFailed(failed_stocks \o p.failed, batch)),
                           attempts |-> attempt + 1, codes |-> batch])
                   /\ EndOfBatch(consecutive_failures + 1, base, all_results)
    /\ attempts_made' = attempts_made + 1
    /\ UNCHANGED selVars
    /\ UNCHANGED <<store, txn, codes, today, to_fetch, all_results,
                   upsert_i, prev, committed>>

\* database.py:60-67: upsert_prices up to the opening of the transaction
EnterUpsert(df) ==
    /\ result' = df
    /\ IF df = <<>>
       THEN /\ pc' = "stored"
            /\ UNCHANGED <<txn, upsert_i>>
       ELSE /\ pc' = "upsert"
            /\ txn' = store
            /\ upsert_i' = 1

\* main.py:44-48: the table fetch_prices_yf returned goes to upsert_prices;
\* the locals of fetch_prices_yf are gone
MainUpsert ==
    /\ pc = "returned"
    /\ EnterUpsert(result)
    /\ batch_idx' = 0
    /\ attempt' = 0
    /\ all_results' = <<>>
    /\ failed_stocks' = <<>>
    /\ consecutive_failures' = 0
    /\ sleeps' = <<>>
    /\ batch_log' = <<>>
    /\ attempts_made' = 0
    /\ UNCHANGED selVars
    /\ UNCHANGED <<store, codes, today, to_fetch, prev, yielded, committed>>

\* database.py:71-80: one turn of the row loop
UpsertRow ==
    /\ pc = "upsert"
    /\ upsert_i <= Len(result)
    /\ txn' = InsertOrReplace(txn, DbRow(result[upsert_i]))
    /\ upsert_i' = upsert_i + 1
    /\ UNCHANGED selVars
    /\ UNCHANGED <<store, codes, today, pc, to_fetch, batch_idx, attempt,
                   all_results, failed_stocks, consecutive_failures, sleeps,
                   result, batch_log, attempts_made, prev, yielded, committed>>

\* database.py:82-84: conn.commit() and the return
UpsertCommit ==
    /\ pc = "upsert"
    /\ upsert_i > Len(result)
    /\ store' = txn
    /\ txn' = EmptyBag
    /\ pc' = "stored"
    /\ committed' = CodesOf(result)
    /\ UNCHANGED selVars
    /\ UNCHANGED <<codes, today, to_fetch, batch_idx, attempt,
                   all_results, failed_stocks, consecutive_failures, sleeps,
                   result, upsert_i, batch_log, attempts_made, prev, yielded>>

\* what is remembered of a run of main when it ends: whether it crashed,
\* its codes_to_fetch, the tickers in the table its fetch returned, the
\* tickers its upsert committed, and the prices table it left
Summary(crashed, st) ==
    [started |-> TRUE, crashed |-> crashed, to_fetch |-> Range(to_fetch),
     committed |-> committed, yielded |-> yielded, store_end |-> st]

\* the process dies inside a run of main: memory is lost, the database file
\* keeps what was committed
Crash ==
    /\ pc \in {"batch", "returned", "upsert", "stored"}
    /\ pc' = "crashed"
    /\ store' = AfterCrash(store, txn)
    /\ txn' = EmptyBag
    /\ prev' = Summary(TRUE, AfterCrash(store, txn))
    /\ result' = <<>>
    /\ batch_idx' = 0
    /\ attempt' = 0
    /\ all_results' = <<>>
    /\ failed_stocks' = <<>>
    /\ consecutive_failures' = 0
    /\ sleeps' = <<>>
    /\ batch_log' = <<>>
    /\ attempts_made' = 0
    /\ upsert_i' = 1
    /\ UNCHANGED selVars
    /\ UNCHANGED <<codes, today, to_fetch, yielded, committed>>

---------------------------------------------------------------------------
(* Momentum Selector: the entry, the grouping and the ranking of           *)
(* pick_stocks, stock_data.py:197-210 and 309-339                          *)

\* A price table is given by its columns, its number of rows and the
\* candidates the filter cascade (stock_data.py:212-307) finds in it, in the
\* order of the loop over the tickers.  A candidate carries the fields the
\* grouping reads: ma20_slope in tenths, avg_ma20_distance, is_lowest_close.
Table(cols, nrows, cands) == [cols |-> cols, nrows |-> nrows, cands |-> cands]

RequiredColumns == <<"code", "date", "open", "high", "low", "close", "volume">>
FullColumns == Range(RequiredColumns)

NoTable == Table({}, 0, <<>>)
NotCalled == [outcome |-> "none", table |-> <<>>, missing |-> <<>>]
NoError == [raised |-> FALSE, missing |-> <<>>]
NoReport == [written |-> FALSE, codes |-> {}]

\* DataFrame.empty: no row or no column
IsEmpty(t) == t.nrows = 0 \/ t.cols = {}

\* [col for col in required_columns if col not in prices.columns]
MissingColumns(t) ==
    SelectSeq(RequiredColumns, LAMBDA col : col \notin t.cols)

\* a sort that puts a row before the rows of equal distance already there
RECURSIVE InsertByDistanceUnstable(_, _)
InsertByDistanceUnstable(sorted, x) ==
    IF sorted = <<>> THEN <<x>>
    ELSE IF Head(sorted).avg_ma20_distance < x.avg_ma20_distance
         THEN <<Head(sorted)>> \o InsertByDistanceUnstable(Tail(sorted), x)
         ELSE <<x>> \o sorted

\* the place of x in a list sorted by avg_ma20_distance: behind every row
\* whose distance is not larger
RECURSIVE InsertByDistance(_, _)
InsertByDistance(sorted, x) ==
    IF sorted = <<>> THEN <<x>>
    ELSE IF Head(sorted).avg_ma20_distance <= x.avg_ma20_distance
         THEN <<Head(sorted)>> \o InsertByDistance(Tail(sorted), x)
         ELSE <<x>> \o sorted

RECURSIVE SortByDistance(_)
SortByDistance(g) ==
    IF g = <<>> THEN <<>>
    ELSE InsertByDistance(SortByDistance(SubSeq(g, 1, Len(g) - 1)), g[Len(g)])

\* DataFrame.nsmallest(n, "avg_ma20_distance"), keep="first"
NSmallest(n, g) ==
    LET sorted == SortByDistance(g)
    IN  SubSeq(sorted, 1, Min(n, Len(sorted)))

NotLowestClose(g) == SelectSeq(g, LAMBDA c : c.is_lowest_close = FALSE)

\* the branch for an empty preferred subset left out
SelectGroupNoFallback(g) ==
    IF Len(g) > 6
    THEN LET filtered == NotLowestClose(g)
         IN  IF Len(filtered) > 6 THEN NSmallest(6, filtered)
             ELSE IF Len(filtered) > 0 THEN filtered
             ELSE g
    ELSE g

\* the preference for is_lowest_close == False left out
SelectGroupNoPreference(g) == IF Len(g) > 6 THEN NSmallest(6, g) ELSE g

\* stock_data.py:319-326 for group1 and 329-336 for group2
SelectGroup(g) ==
    IF Len(g) > 6
    THEN LET filtered == NotLowestClose(g)
         IN  IF Len(filtered) > 6 THEN NSmallest(6, filtered)
             ELSE IF Len(filtered) > 0 THEN filtered
             ELSE NSmallest(6, g)
    ELSE g

\* stock_data.py:315-316
\* the mask of group1 with > 0.8
Group1Above(res) ==
    SelectSeq(res, LAMBDA c : c.ma20_slope > 8 /\ c.ma20_slope < 20)

Group1(res) ==
    SelectSeq(res, LAMBDA c : c.ma20_slope >= 8 /\ c.ma20_slope < 20)
Group2(res) == SelectSeq(res, LAMBDA c : c.ma20_slope < 8)

\* stock_data.py:309-339
GroupAndRank(res) ==
    IF res = <<>> THEN <<>>
    ELSE SelectGroup(Group1(res)) \o SelectGroup(Group2(res))

\* the validation of the columns left out: a table the cascade cannot read
\* gives no candidate
PickStocksUnvalidated(t, top_k) ==
    IF IsEmpty(t) \/ MissingColumns(t) # <<>>
    THEN [outcome |-> "returned", table |-> <<>>, missing |-> <<>>]
    ELSE [outcome |-> "returned", table |-> GroupAndRank(t.cands),
          missing |-> <<>>]

\* the candidate list cut to its first top_k rows
PickStocksTopK(t, top_k) ==
    IF IsEmpty(t) THEN [outcome |-> "returned", table |-> <<>>, missing |-> <<>>]
    ELSE IF MissingColumns(t) # <<>>
         THEN [outcome |-> "raised", table |-> <<>>,
               missing |-> MissingColumns(t)]
         ELSE LET out == GroupAndRank(t.cands)
              IN  [outcome |-> "returned",
                   table |-> SubSeq(out, 1, Min(top_k, Len(out))),
                   missing |-> <<>>]

\* pick_stocks(prices, top_k): no statement of the body reads top_k
PickStocks(t, top_k) ==
    IF IsEmpty(t) THEN [outcome |-> "returned", table |-> <<>>, missing |-> <<>>]
    ELSE IF MissingColumns(t) # <<>>
         THEN [outcome |-> "raised", table |-> <<>>,
               missing |-> MissingColumns(t)]
         ELSE [outcome |-> "returned", table |-> GroupAndRank(t.cands),
               missing |-> <<>>]

---------------------------------------------------------------------------
(* The pipeline: runs of main against one database file *)

\* a stale bar of A with values the source has since corrected, and a bar
\* of C for today
SeedStore ==
    SetToBag({[code |-> "A", date |-> Yesterday, open |-> 1, high |-> 2,
               low |-> 1, close |-> 2, volume |-> 5],
              DbRow(SourceBar("C", Today))})

\* the state before the first run of main, with the requested codes drawn
\* from the given strings
\* steps 4 to 7 write the charts, the CSV file and the pages even when
\* nothing was picked
ReportAlways(tbl) == [written |-> TRUE, codes |-> CodesOf(tbl)]

\* main.py:61-63 and 65-216: main returns when nothing was picked; else
\* steps 4 to 7 write the charts, the CSV file and the pages for the picks
ReportOn(tbl) ==
    IF tbl = <<>> THEN NoReport
    ELSE [written |-> TRUE, codes |-> CodesOf(tbl)]

\* main.py:50-63 and 218-220 with t the table load_recent_prices returned:
\* main returns when it is empty, else calls pick_stocks and returns when
\* nothing was picked, else goes on to steps 4 to 7; an exception is logged
\* and raised again
SelectAndReport(t) ==
    /\ hist' = t
    /\ IF IsEmpty(t)
       THEN /\ pc' = "done"
            /\ picked' = NotCalled
            /\ error' = NoError
            /\ report' = NoReport
       ELSE \E r \in {PickStocks(t, 12)} :
                /\ picked' = r
                /\ IF r.outcome = "raised"
                   THEN /\ pc' = "raised"
                        /\ error' = [raised |-> TRUE, missing |-> r.missing]
                        /\ report' = NoReport
                   ELSE /\ pc' = "done"
                        /\ error' = NoError
                        /\ report' = ReportOn(r.table)

\* the rows of a set in a sequence
RECURSIVE InSomeOrder(_)
InSomeOrder(S) ==
    IF S = {} THEN <<>>
    ELSE LET r == CHOOSE x \in S : TRUE IN <<r>> \o InSomeOrder(S \ {r})

\* load_recent_prices without the filter on the date
LoadAllPrices(st, day) == InSomeOrder(Rows(st))

\* database.py:103-122: the rows of the prices table whose date, read as
\* midnight, is not before the time of day of the run LOOKBACK_DAYS days ago
LoadRecentPrices(st, day) ==
    InSomeOrder({r \in Rows(st) : IsoLess(Cutoff(day), r.date)})

\* database.py:99-122: what load_recent_prices returns: a table without
\* columns when the prices table is empty, else the seven columns and the
\* rows loaded.  The source holds at most 2 bars of a ticker, fewer than the
\* 10 the cascade asks for (stock_data.py:233), so the table yields no
\* candidate.
LoadedTable(st, rows) ==
    IF Rows(st) = {} THEN NoTable
    ELSE Table(FullColumns, Len(rows), <<>>)

\* main.py:50-216: load the read window, select, report; none of it writes
\* the prices table
MainFinish ==
    /\ pc = "stored"
    /\ \E rows \in {LoadRecentPrices(store, today)} :
          /\ prices' = rows
          /\ SelectAndReport(LoadedTable(store, rows))
    /\ prev' = Summary(FALSE, store)
    /\ result' = <<>>
    /\ UNCHANGED <<store, txn, codes, today, to_fetch, batch_idx, attempt,
                   all_results, failed_stocks, consecutive_failures, sleeps,
                   upsert_i, batch_log, attempts_made, yielded, committed>>

\* the state before the first run of main, but for the prices table and
\* the requested codes
InitLocals ==
    /\ txn = EmptyBag
    /\ today = Today
    /\ pc = "idle"
    /\ to_fetch = <<>>
    /\ batch_idx = 0
    /\ attempt = 0
    /\ all_results = <<>>
    /\ failed_stocks = <<>>
    /\ consecutive_failures = 0
    /\ sleeps = <<>>
    /\ result = <<>>
    /\ upsert_i = 1
    /\ batch_log = <<>>
    /\ attempts_made = 0
    /\ prev = NoPrev
    /\ yielded = {}
    /\ committed = {}
    /\ hist = NoTable
    /\ prices = <<>>
    /\ picked = NotCalled
    /\ error = NoError
    /\ report = NoReport

InitWith(raw) ==
    /\ store \in {EmptyBag, SeedStore}
    /\ codes \in [1..MaxCodes -> raw]
    /\ InitLocals

\* the pipeline is given ticker symbols only
Init == InitWith(Tickers)

\* one attempt of the current batch, with the errors, the places of the
\* raise and the random base delays drawn from the given sets
Attempt(msgs, ks, bases) ==
    \E df \in Responses(BatchCodes(to_fetch, batch_idx)), base \in bases :
        \/ AttemptCompletes(df, base)
        \/ \E k \in ks, msg \in msgs : AttemptRaises(df, k, msg, base)

\* the responses that hold every ticker of the batch, all with rows or all
\* without
PlainResponses(batch) ==
    {[c \in Range(batch) |-> kind] : kind \in {"rows", "empty"}}

\* one attempt of the current batch with a plain response: it completes, or
\* yf.download raises one of the errors
PlainAttempt(msgs, bases) ==
    \E df \in PlainResponses(BatchCodes(to_fetch, batch_idx)), base \in bases :
        \/ AttemptCompletes(df, base)
        \/ \E msg \in msgs : AttemptRaises(df, 0, msg, base)

\* In the pipeline a failing attempt fails in yf.download, with a timeout,
\* and the random base delay is its minimum.
Next ==
    \/ MainStart
    \/ Attempt({"Read timed out"}, {0}, {BATCH_DELAY_MIN})
    \/ MainUpsert
    \/ UpsertRow
    \/ UpsertCommit
    \/ MainFinish
    \/ Crash

Spec == Init /\ [][Next]_vars

---------------------------------------------------------------------------
(* One call of fetch_prices_yf: an attempt may raise a malformed-payload  *)
(* error at any place of the try block, or complete with any response     *)

NextFetch ==
    \/ MainStart
    \/ Attempt({"Expecting value: line 1 column 1 (char 0)"},
               0..(BATCH_SIZE - 1), {BATCH_DELAY_MIN})

\* the requested codes may hold blank entries
InitFetch == InitWith(RawCodes)

SpecFetch == InitFetch /\ [][NextFetch]_vars

\* fetch_prices_yf runs in one thread: the statement after the current one
\* is executed whenever there is one, and yf.download returns or raises
\* (it is called with timeout=30), as does each time.sleep
SpecFetchFair == SpecFetch /\ WF_vars(NextFetch)

---------------------------------------------------------------------------
(* One call of fetch_prices_yf on a list of several batches: the waits    *)

\* largest number of batches of a call
MaxBatches == 3

\* a code list of n entries: A, B, C, A, B, ...
CodeList(n) ==
    [i \in 1..n |-> CASE i % 3 = 1 -> "A" [] i % 3 = 2 -> "B" [] OTHER -> "C"]

\* the prices table is empty, so that every code is to be fetched
InitWaits ==
    /\ store = EmptyBag
    /\ codes \in {CodeList(n) : n \in 0..(MaxBatches * BATCH_SIZE)}
    /\ InitLocals

NextWaits ==
    \/ MainStart
    \/ PlainAttempt(ErrorMsgs, BaseDelays)

SpecWaits == InitWaits /\ [][NextWaits]_vars

---------------------------------------------------------------------------
(* Calls of pick_stocks on tables that hold every required column *)

\* largest number of candidates the filter cascade leaves
MaxCands == 7

SlopeTenths == {7, 8}
Distances == {1, 2}

Candidate(n, slope, dist, low) ==
    [code |-> n, ma20_slope |-> slope, avg_ma20_distance |-> dist,
     is_lowest_close |-> low]

InitPick ==
    /\ InitWith({"A"})
    /\ store = EmptyBag

\* pick_stocks is called on a table in which the cascade finds one more
\* candidate than in the last one.  Tickers are numbered in the order of
\* the loop over feat.groupby("code").  The tables drawn list the tickers of
\* group 1 before those of group 2: each group is cut out of result_df by
\* its own mask (stock_data.py:315-316), so the order of two tickers of
\* different groups reaches neither group.  Of the rows of the table only
\* their number is kept, one per candidate.
PickOneMore(slope, dist, low) ==
    /\ Len(hist.cands) < MaxCands
    /\ (hist.cands # <<>> /\ hist.cands[Len(hist.cands)].ma20_slope < 8)
          => slope < 8
    /\ LET c == Candidate(Len(hist.cands) + 1, slope, dist, low)
           t == Table(FullColumns, Len(hist.cands) + 1, Append(hist.cands, c))
       IN  /\ hist' = t
           /\ picked' = PickStocks(t, 12)
    /\ UNCHANGED <<error, prices, report>>
    /\ UNCHANGED storeVars
    /\ UNCHANGED pc

NextPick ==
    \E slope \in SlopeTenths, dist \in Distances, low \in BOOLEAN :
        PickOneMore(slope, dist, low)

SpecPick == InitPick /\ [][NextPick]_vars

\* pick_stocks is called on the table of the last call and one more ticker
\* of group 2 whose code sorts before the others, so that the loop over
\* feat.groupby("code") finds a candidate of group 2 before those of group 1
PickOneAhead(dist, low) ==
    /\ hist.cands # <<>>
    /\ Len(hist.cands) <= MaxCands
    /\ hist.cands[1].ma20_slope >= 8
    /\ LET c == Candidate(0, 7, dist, low)
           t == Table(FullColumns, Len(hist.cands) + 1, <<c>> \o hist.cands)
       IN  /\ hist' = t
           /\ picked' = PickStocks(t, 12)
    /\ UNCHANGED <<error, prices, report>>
    /\ UNCHANGED storeVars
    /\ UNCHANGED pc

\* after a ticker was put ahead no further call is made
NextOrder ==
    \/ /\ hist.cands # <<>> => hist.cands[1].code # 0
       /\ NextPick
    \/ \E dist \in Distances, low \in BOOLEAN : PickOneAhead(dist, low)

SpecOrder == InitPick /\ [][NextOrder]_vars

---------------------------------------------------------------------------
(* Filter cascade of pick_stocks: stock_data.py:212-307.
   Prices are whole dollars.  Means are compared through sums, so the gates
   on volume, trend, range, slope and volatility are exact; the distance in
   percent and the volatility in percent are kept in fixed point, rounded
   down. *)

RECURSIVE SumUpTo(_, _)
SumUpTo(s, n) == IF n = 0 THEN 0 ELSE s[n] + SumUpTo(s, n - 1)

SumSeq(s) == SumUpTo(s, Len(s))

Abs(x) == IF x < 0 THEN 0 - x ELSE x
Max(a, b) == IF a > b THEN a ELSE b

\* the largest r with r * r <= x, between lo and hi
RECURSIVE SqrtIn(_, _, _)
SqrtIn(x, lo, hi) ==
    IF lo = hi THEN lo
    ELSE LET mid == (lo + hi + 1) \div 2
         IN  IF mid * mid <= x THEN SqrtIn(x, mid, hi)
             ELSE SqrtIn(x, lo, mid - 1)

ISqrt(x) == SqrtIn(x, 0, 46340)

\* sort_values("date") left out: the rows of a ticker in their input order
HistoryOfUnsorted(rows, code) == SelectSeq(rows, LAMBDA r : r.code = code)

RECURSIVE InsertByDate(_, _)
InsertByDate(sorted, x) ==
    IF sorted = <<>> THEN <<x>>
    ELSE IF IsoLess(x.date, Head(sorted).date)
         THEN <<x>> \o sorted
         ELSE <<Head(sorted)>> \o InsertByDate(Tail(sorted), x)

RECURSIVE SortByDate(_)
SortByDate(g) ==
    IF g = <<>> THEN <<>>
    ELSE InsertByDate(SortByDate(Tail(g)), Head(g))

\* the group of one code, after sort_values(["code", "date"]), groupby("code")
\* and group.sort_values("date")
HistoryOf(rows, code) ==
    SortByDate(SelectSeq(rows, LAMBDA r : r.code = code))

\* group.tail(n)
LastRows(g, n) == SubSeq(g, Max(1, Len(g) - n + 1), Len(g))

\* the close of a bar the download holds no price for: the column is
\* "close REAL" without NOT NULL, and a NaN is stored as NULL and read back
\* as NaN
NaN == -1

\* rolling(20, min_periods=20).mean() is NaN unless the window of the last
\* 20 rows holds 20 closes that are not NaN
Ma20IsNaN(g, i) == i < 20 \/ \E j \in (i - 19)..i : g[j].close = NaN

\* 20 times the ma20 of row i
Ma20x20(g, i) == SumSeq([j \in 1..20 |-> g[i - 20 + j].close])

\* the volume gate with < written as <=
LiquidityFailsAtLimit(last_10) ==
    SumSeq([i \in 1..Len(last_10) |-> last_10[i].volume])
        <= 1000000 * Len(last_10)

\* avg_volume < 1_000_000
LiquidityFails(last_10) ==
    SumSeq([i \in 1..Len(last_10) |-> last_10[i].volume])
        < 1000000 * Len(last_10)

\* the close in the place of the mean of open and close
PriceAboveMa20ByClose(g) ==
    \A i \in (Len(g) - 4)..Len(g) : 20 * g[i].close > Ma20x20(g, i)

\* avg_price_5d > ma20 on all of the last 5 rows
PriceAboveMa20(g) ==
    \A i \in (Len(g) - 4)..Len(g) :
        10 * (g[i].open + g[i].close) > Ma20x20(g, i)

\* avg_high_low_diff <= 0.5
RangeFails(last_10) ==
    2 * SumSeq([i \in 1..Len(last_10) |-> last_10[i].high - last_10[i].low])
        <= Len(last_10)

\* 80 times ma20_slope
Slope80(g) == Ma20x20(g, Len(g)) - Ma20x20(g, Len(g) - 4)

\* 5 * sum of squares - square of the sum of the last 5 closes: 20 times the
\* variance (ddof = 1) times 5
Spread(last_5) ==
    LET c == [i \in 1..Len(last_5) |-> last_5[i].close]
        s == SumSeq(c)
    IN  5 * SumSeq([i \in 1..Len(c) |-> c[i] * c[i]]) - s * s

CloseSum(last_5) == SumSeq([i \in 1..Len(last_5) |-> last_5[i].close])

\* volatility_pct > 8.0, with 999 for a mean close that is not positive
VolatilityFails(last_5) ==
    IF CloseSum(last_5) > 0
    THEN 3125 * Spread(last_5) > 16 * CloseSum(last_5) * CloseSum(last_5)
    ELSE TRUE

\* volatility_pct in hundredths of a percent
VolatilityCenti(last_5) ==
    IF CloseSum(last_5) > 0
    THEN (ISqrt(12500 * Spread(last_5)) * 100) \div CloseSum(last_5)
    ELSE 99900

\* max(3.0, volatility_pct * 1.5) in thousandths of a percent
MaxDistanceMilli(last_5) == Max(3000, 15 * VolatilityCenti(last_5))

\* mean of distance_pct over the last 5 rows, in thousandths of a percent
AvgDistanceMilli(g) ==
    SumSeq([k \in 1..5 |->
        LET i == Len(g) - 5 + k
            lowest == Min(g[i].open, g[i].close)
        IN  (100000 * (20 * lowest - Ma20x20(g, i))) \div Ma20x20(g, i)])
      \div 5

\* avg_ma20_distance in cents
AvgMa20DistanceCents(g) ==
    SumSeq([k \in 1..5 |->
        LET i == Len(g) - 5 + k
        IN  Abs(10 * (g[i].open + g[i].close) - Ma20x20(g, i))])

\* latest["close"] == last_5["close"].min()
IsLowestClose(last_5) ==
    \A i \in 1..Len(last_5) : last_5[Len(last_5)].close <= last_5[i].close

Excluded(gate) == [keep |-> FALSE, gate |-> gate]

\* the body of the loop over the groups for one code: the gate that excludes
\* the ticker, or the row appended to results.  ma20_slope is in tenths,
\* rounded down, which keeps every comparison with 0.8 and 2.0.
FilterCascade(code, g) ==
    IF Len(g) < 10 THEN Excluded("rows")
    ELSE IF LiquidityFails(LastRows(g, 10)) THEN Excluded("volume")
    ELSE IF \E i \in (Len(g) - 4)..Len(g) : Ma20IsNaN(g, i)
         THEN Excluded("ma20")
    ELSE IF ~PriceAboveMa20(g) THEN Excluded("trend")
    ELSE IF RangeFails(LastRows(g, 10)) THEN Excluded("range")
    ELSE IF Slope80(g) >= 160 THEN Excluded("slope")
    ELSE IF VolatilityFails(LastRows(g, 5)) THEN Excluded("volatility")
    ELSE IF AvgDistanceMilli(g) > MaxDistanceMilli(LastRows(g, 5))
         THEN Excluded("distance")
    ELSE [keep |-> TRUE, gate |-> "none",
          cand |-> [code |-> code,
                    close |-> g[Len(g)].close,
                    ma20 |-> Ma20x20(g, Len(g)),
                    distance |-> AvgDistanceMilli(g),
                    volatility |-> VolatilityCenti(LastRows(g, 5)),
                    ma20_slope |-> Slope80(g) \div 8,
                    max_distance |-> MaxDistanceMilli(LastRows(g, 5)),
                    volume |-> g[Len(g)].volume,
                    avg_ma20_distance |-> AvgMa20DistanceCents(g),
                    is_lowest_close |-> IsLowestClose(LastRows(g, 5))]]

\* the codes of the table in the order of groupby("code")
RECURSIVE SortedCodes(_)
SortedCodes(cs) ==
    IF cs = {} THEN <<>>
    ELSE LET c == CHOOSE x \in cs : \A y \in cs : x <= y
         IN  <<c>> \o SortedCodes(cs \ {c})

\* results: the rows appended by the loop, in the order of the codes
Results(rows) ==
    LET cs == SortedCodes({rows[i].code : i \in 1..Len(rows)})
        all == [i \in 1..Len(cs) |-> FilterCascade(cs[i], HistoryOf(rows, cs[i]))]
        kept == SelectSeq(all, LAMBDA r : r.keep)
    IN  [i \in 1..Len(kept) |-> kept[i].cand]

---------------------------------------------------------------------------
(* Calls of pick_stocks on tables of daily bars *)

\* how many rows beyond 24 the longest history of the ticker has
ExtraRows == 1

Lengths == {9, 10, 20} \cup (24..(24 + ExtraRows))

\* the bars of a ticker: p.n daily rows, the close p.head on the rows that
\* leave the 20-row window during the last 5 days, p.close5 on the last 5
\* rows and p.bump more on the last row, 100 between; the open
\* p.close5 + p.lift on the last 5 rows and 100 before; high - low = 1 on
\* the last p.wide rows and 0 before
Profile(n, head, close5, bump, lift, volume, wide) ==
    [n |-> n, head |-> head, close5 |-> close5, bump |-> bump,
     lift |-> lift, volume |-> volume, wide |-> wide]

ProfileBar(code, p, i) ==
    LET close == IF i = p.n THEN p.close5 + p.bump
                 ELSE IF i > p.n - 5 THEN p.close5
                 ELSE IF i <= p.n - 20 THEN p.head
                 ELSE 100
    IN  [code |-> code, date |-> <<1, i>>,
         open |-> IF i > p.n - 5 THEN p.close5 + p.lift ELSE 100,
         high |-> close + (IF i > p.n - p.wide THEN 1 ELSE 0),
         low |-> close, close |-> close, volume |-> p.volume]

History(code, p) == [i \in 1..p.n |-> ProfileBar(code, p, i)]

TickerProfiles ==
    {Profile(n, head, close5, bump, lift, volume, wide) :
        n \in Lengths, head \in {60, 84, 100}, close5 \in {100, 104},
        bump \in {0, 1, 30}, lift \in {0, 1},
        volume \in {500000, 1000000, 2000000}, wide \in {5, 30}}

\* a Group A candidate and a ticker with 9 rows
OtherProfiles ==
    {Profile(24, 84, 100, 1, 1, 2000000, 10),
     Profile(9, 100, 100, 0, 1, 2000000, 10)}

\* the ticker the calls are about, and the codes another ticker may have:
\* one sorts before it, one after
TheTicker == 2
OtherCodes == {1, 3}

RECURSIVE Reverse(_)
Reverse(s) == IF s = <<>> THEN <<>> ELSE Reverse(Tail(s)) \o <<Head(s)>>

RECURSIVE Interleave(_, _)
Interleave(a, b) ==
    IF a = <<>> THEN b
    ELSE IF b = <<>> THEN a
    ELSE <<Head(a), Head(b)>> \o Interleave(Tail(a), Tail(b))

\* the table with the rows of one more ticker, placed in one of three ways
Placed(how, rows, more) ==
    CASE how = "after" -> rows \o more
      [] how = "reversed" -> Reverse(rows \o more)
      [] how = "interleaved" -> Interleave(rows, more)

Placements == {"after", "reversed", "interleaved"}

\* the table pick_stocks is passed when the rows hold all seven columns
AsTable(rows) == Table(FullColumns, Len(rows), Results(rows))

InitCascade ==
    /\ InitWith({"A"})
    /\ store = EmptyBag

\* pick_stocks(rows, top_k)
PickOnRows(rows) ==
    LET t == AsTable(rows)
    IN  /\ prices' = rows
        /\ hist' = t
        /\ picked' = PickStocks(t, 12)

\* pick_stocks is called on the bars of one ticker
PickTicker(p) ==
    /\ pc = "idle"
    /\ prices = <<>>
    /\ PickOnRows(History(TheTicker, p))
    /\ UNCHANGED <<error, report>>
    /\ UNCHANGED storeVars
    /\ UNCHANGED pc

\* the bars of a ticker whose oldest bar has no close: yf.download returns
\* one index for all tickers of a batch, a ticker without a price on a day
\* gets a row of NaN, and no step on the way to the table drops it
WithGap(rows) == [rows EXCEPT ![1] = [@ EXCEPT !.close = NaN]]

\* pick_stocks is called on the bars of one ticker, more than 24 of them,
\* the oldest one without a close
PickTickerWithGap(p) ==
    /\ pc = "idle"
    /\ prices = <<>>
    /\ p.n > 24
    /\ PickOnRows(WithGap(History(TheTicker, p)))
    /\ UNCHANGED <<error, report>>
    /\ UNCHANGED storeVars
    /\ UNCHANGED pc

OthersIn(rows) == {rows[i].code : i \in 1..Len(rows)} \ {TheTicker}

\* pick_stocks is called on the table of the last call and the bars of one
\* more ticker
PickWithOther(code, p, how) ==
    /\ pc = "idle"
    /\ prices # <<>>
    /\ OthersIn(prices) = {}
    /\ PickOnRows(Placed(how, prices, History(code, p)))
    /\ UNCHANGED <<error, report>>
    /\ UNCHANGED storeVars
    /\ UNCHANGED pc

\* pick_stocks is called on a table with all columns and no rows
PickNoRows ==
    /\ pc = "idle"
    /\ prices = <<>>
    /\ picked = NotCalled
    /\ PickOnRows(<<>>)
    /\ UNCHANGED <<error, report>>
    /\ UNCHANGED storeVars
    /\ UNCHANGED pc

\* step 3 of main and what follows it, with load_recent_prices returning
\* the bars of the one ticker, or no row
MainSelectRows ==
    /\ pc = "idle"
    /\ OthersIn(prices) = {}
    /\ \E t \in {AsTable(prices)} : SelectAndReport(t)
    /\ UNCHANGED prices
    /\ UNCHANGED storeVars

NextCascade ==
    \/ \E p \in TickerProfiles : PickTicker(p)
    \/ \E p \in TickerProfiles : PickTickerWithGap(p)
    \/ \E code \in OtherCodes, p \in OtherProfiles, how \in Placements :
          PickWithOther(code, p, how)
    \/ PickNoRows
    \/ MainSelectRows

SpecCascade == InitCascade /\ [][NextCascade]_vars

---------------------------------------------------------------------------
(* Calls of pick_stocks, directly and from step 3 of main, on tables with
   any subset of the required columns *)

\* largest number of rows of the tables passed
MaxRows == 1

\* none of these tables has the 10 rows of one ticker the cascade asks for
\* (stock_data.py:233), so none yields a candidate
InputTables ==
    {Table(cols, n, <<>>) : cols \in SUBSET Range(RequiredColumns),
                            n \in 0..MaxRows}

InitValidate ==
    /\ InitWith({"A"})
    /\ store = EmptyBag

\* pick_stocks(t, top_k) called by a caller that catches nothing
CallPickStocks(t) ==
    /\ pc \in {"idle", "done", "raised"}
    /\ pc' = "idle"
    /\ hist' = t
    /\ picked' = PickStocks(t, 12)
    /\ error' = NoError
    /\ UNCHANGED <<prices, report>>
    /\ UNCHANGED storeVars

\* step 3 of main and what follows it, with t the table loaded
MainSelect(t) ==
    /\ pc \in {"idle", "done", "raised"}
    /\ SelectAndReport(t)
    /\ UNCHANGED prices
    /\ UNCHANGED storeVars

NextValidate ==
    \/ \E t \in InputTables : CallPickStocks(t)
    \/ \E t \in InputTables : MainSelect(t)

SpecValidate == InitValidate /\ [][NextValidate]_vars

---------------------------------------------------------------------------
(* Sequences of upsert_prices calls on arbitrary tables *)

\* largest number of rows of a table passed to upsert_prices
MaxDf == 2

\* a bar whose seven values follow from v; two Timestamps of one day give
\* the same date string
Bar(c, d, time, v) ==
    [code |-> c, date |-> [date |-> d, time |-> time],
     open |-> v, high |-> v + 2, low |-> v - 1, close |-> v + 1,
     volume |-> 100 * v]

UpsertBars ==
    {Bar("A", Yesterday, 0, 3), Bar("A", Yesterday, 1, 4),
     Bar("A", Yesterday, 0, 4), Bar("A", Today, 0, 3), Bar("A", Today, 0, 4)}

InitStore == InitWith({"A"})

\* upsert_prices(df): database.py:53-69
CallUpsertPrices(df) ==
    /\ pc \in {"idle", "stored"}
    /\ EnterUpsert(df)
    /\ UNCHANGED selVars
    /\ UNCHANGED <<store, codes, today, to_fetch, batch_idx, attempt,
                   all_results, failed_stocks, consecutive_failures, sleeps,
                   batch_log, attempts_made, prev, yielded, committed>>

\* the connection's context manager commits when the block raised
AfterRollbackCommitted(st, tx) == tx

\* database.py:66: "with sqlite3.connect(DB_PATH) as conn" rolls the open
\* transaction back when the block raises
AfterRollback(st, tx) == st

\* database.py:71-80: cursor.execute raises on the row at upsert_i (a value
\* sqlite3 cannot bind, a locked or full database); the exception leaves
\* upsert_prices
UpsertRaises ==
    /\ pc = "upsert"
    /\ upsert_i <= Len(result)
    /\ store' = AfterRollback(store, txn)
    /\ txn' = EmptyBag
    /\ pc' = "raised"
    /\ UNCHANGED selVars
    /\ UNCHANGED <<codes, today, to_fetch, batch_idx, attempt,
                   all_results, failed_stocks, consecutive_failures, sleeps,
                   result, upsert_i, batch_log, attempts_made, prev, yielded,
                   committed>>

NextStore ==
    \/ \E df \in SeqsUpTo(UpsertBars, MaxDf) : CallUpsertPrices(df)
    \/ UpsertRow
    \/ UpsertCommit
    \/ UpsertRaises
    \/ Crash

SpecStore == InitStore /\ [][NextStore]_vars

---------------------------------------------------------------------------
(* Properties of fetch_prices_yf *)

\* the b-th batch of the run, b counted from 1
BatchOf(b) == BatchCodes(to_fetch, b - 1)

\* the rows of the tickers of a batch whose slices were kept, in batch order
RECURSIVE KeptRows(_, _)
KeptRows(batch, got) ==
    IF batch = <<>> THEN <<>>
    ELSE (IF Head(batch) \in got THEN FullSlice(Head(batch)) ELSE <<>>)
         \o KeptRows(Tail(batch), got)

\* the rows the first n finished batches account for
RECURSIVE RowsUpTo(_)
RowsUpTo(n) ==
    IF n = 0 THEN <<>>
    ELSE RowsUpTo(n - 1) \o
         (IF batch_log[n].ok THEN KeptRows(BatchOf(n), batch_log[n].got)
          ELSE <<>>)

NoRepeats(s) == \A i, j \in 1..Len(s) : s[i] = s[j] => i = j

\* C1: a batch whose 3 attempts all raise leaves all its tickers in the
\* failed list and no row in the output; the loop goes on to the next batch
\* and the call returns with every batch handled.  What a batch adds to the
\* failed list are tickers of that batch only, and the output is the rows
\* kept by the batches that completed, in batch order, whatever the
\* exhausted batches were.
C1_ExhaustedBatchIsolated ==
    /\ pc \in {"idle", "batch", "returned"}
    /\ pc = "batch" =>
          batch_idx = Len(batch_log) /\ batch_idx < NumBatches(to_fetch)
    /\ pc = "returned" =>
          /\ Len(batch_log) = NumBatches(to_fetch)
          /\ result = Flatten(all_results)
          /\ failed_stocks = LoggedFailed(batch_log)
    /\ \A b \in 1..Len(batch_log) :
          /\ Range(batch_log[b].failed) \subseteq Range(BatchOf(b))
          /\ ~batch_log[b].ok =>
                /\ Range(BatchOf(b)) \subseteq Range(failed_stocks)
                /\ batch_log[b].got = {}
    /\ Flatten(all_results) = RowsUpTo(Len(batch_log))

\* a run returned whose first batch exhausted its retries and whose second
\* batch completed with rows
C1_Witness ==
    /\ pc = "returned"
    /\ Len(batch_log) >= 2
    /\ ~batch_log[1].ok
    /\ batch_log[2].ok
    /\ batch_log[2].got # {}

\* C2: when fetch_prices_yf returns, a ticker of to_fetch is in the failed
\* list if and only if it has no row in the returned table (stated for the
\* runs whose to_fetch holds no ticker twice).
C2_FailedIffNoRows ==
    (pc = "returned" /\ NoRepeats(to_fetch)) =>
        \A c \in Range(to_fetch) :
            (c \in Range(failed_stocks)) <=> (c \notin CodesOf(result))

\* C3: the returned table holds only rows of tickers of to_fetch and no two
\* rows with the same (ticker, date).
C3_RowsUniqueSubset ==
    pc = "returned" =>
        /\ CodesOf(result) \subseteq Range(to_fetch)
        /\ \A i, j \in 1..Len(result) :
              (result[i].code = result[j].code /\ result[i].date = result[j].date)
                  => i = j

\* the requested tickers: the non-blank entries of codes, stripped
Requested == {Strip(codes[i]) : i \in 1..Len(codes)} \ {""}

\* C4: a requested ticker is in to_fetch if and only if the store holds no
\* row of it or only rows dated before today; and with nothing to fetch the
\* call returns an empty table without a download attempt and without a wait.
C4_FreshnessResolver ==
    pc \in {"batch", "returned"} =>
        /\ Range(to_fetch) \subseteq Requested
        /\ \A c \in Requested :
              (c \in Range(to_fetch)) <=>
                  (\A r \in RowsOf(store, c) : IsoLess(r.date, today))
        /\ to_fetch = <<>> =>
              /\ pc = "returned"
              /\ attempts_made = 0
              /\ sleeps = <<>>
              /\ result = <<>>

\* a run in which one requested ticker is skipped as up to date, one is
\* fetched because its rows are old and one because it has no row
C4_Witness ==
    /\ pc = "batch"
    /\ \E c \in Requested : c \notin Range(to_fetch)
    /\ \E c \in Range(to_fetch) : RowsOf(store, c) # {}
    /\ \E c \in Range(to_fetch) : RowsOf(store, c) = {}

---------------------------------------------------------------------------
(* Properties of the pipeline *)

OneRowPerKey(tbl) ==
    \A r \in Rows(tbl) :
        /\ tbl[r] = 1
        /\ \A q \in Rows(tbl) : SameKey(r, q) => r = q

C7_CrashRecovery ==
    /\ (prev.crashed /\ pc \in {"crashed", "batch", "returned"}) =>
          \A c \in prev.committed : \A i \in 1..Len(FullSlice(c)) :
              DbRow(FullSlice(c)[i]) \in Rows(store)
    /\ (prev.crashed /\ pc \in {"batch", "returned"}) =>
          \A c \in prev.to_fetch \ prev.committed : c \in Range(to_fetch)

\* the run after one that crashed between the return of its fetch, which had
\* rows, and the commit of its upsert
C7_Witness ==
    /\ pc = "batch"
    /\ prev.crashed
    /\ prev.yielded # {}
    /\ prev.committed = {}

---------------------------------------------------------------------------
(* Properties of pick_stocks *)

InGroupA(c) == c.ma20_slope >= 8 /\ c.ma20_slope < 20
InGroupB(c) == c.ma20_slope < 8

\* the candidates the cascade found, and the rows returned, per group
InA == SelectSeq(hist.cands, InGroupA)
InB == SelectSeq(hist.cands, InGroupB)
OutA == SelectSeq(picked.table, InGroupA)
OutB == SelectSeq(picked.table, InGroupB)

\* C8: the table pick_stocks returns holds at most 6 rows with
\* 0.8 <= ma20_slope < 2.0, at most 6 with ma20_slope < 0.8, and at most 12
\* rows.
C8_GroupSizeBound ==
    picked.outcome = "returned" =>
        /\ Len(OutA) <= 6
        /\ Len(OutB) <= 6
        /\ Len(picked.table) <= 12

\* a call in which the cascade left more than 6 candidates of a group
C8_Witness ==
    /\ picked.outcome = "returned"
    /\ Len(InA) > 6
    /\ Len(OutA) = 6

\* out is 6 rows of pool, none twice, and no row of pool left out has a
\* smaller avg_ma20_distance than a row of out
SixSmallestOf(out, pool) ==
    /\ Len(out) = 6
    /\ NoRepeats(out)
    /\ Range(out) \subseteq Range(pool)
    /\ \A x \in Range(out) : \A y \in Range(pool) \ Range(out) :
          x.avg_ma20_distance <= y.avg_ma20_distance

\* the truncation rule of C10 for one group
TruncatedAsStated(in, out) ==
    LET P == SelectSeq(in, LAMBDA c : ~c.is_lowest_close)
    IN  /\ Len(in) <= 6 => out = in
        /\ (Len(in) > 6 /\ Len(P) > 6) => SixSmallestOf(out, P)
        /\ (Len(in) > 6 /\ Len(P) >= 1 /\ Len(P) <= 6) => out = P
        /\ (Len(in) > 6 /\ Len(P) = 0) => SixSmallestOf(out, in)

\* C10: each group is truncated by the rule, independently of the other.
C10_TruncationRule ==
    picked.outcome = "returned" =>
        /\ TruncatedAsStated(InA, OutA)
        /\ TruncatedAsStated(InB, OutB)

\* a call with more than 6 candidates in group A, exactly 2 of them with
\* is_lowest_close true: none of the 2 is returned
C10_Witness ==
    /\ picked.outcome = "returned"
    /\ Len(InA) > 6
    /\ Cardinality({c \in Range(InA) : c.is_lowest_close}) = 2
    /\ \A c \in Range(OutA) : ~c.is_lowest_close
    /\ Len(OutA) = Len(InA) - 2

---------------------------------------------------------------------------
(* Properties of the validation in pick_stocks *)

MissingIn(t) == {col \in Range(RequiredColumns) : col \notin t.cols}

\* pick_stocks was called on hist, raised an error that names the columns
\* hist lacks, and returned nothing; when main made the call, main ended
\* with that error
RaisedNamingMissing ==
    /\ picked.outcome = "raised"
    /\ picked.table = <<>>
    /\ Range(picked.missing) = MissingIn(hist)
    /\ pc # "idle" => (pc = "raised" /\ error.raised
                       /\ error.missing = picked.missing)

\* C9 as stated: pick_stocks raises on every table that lacks a required
\* column, whatever its number of rows.
C9_RaisesWhateverRows ==
    (picked.outcome # "none" /\ MissingIn(hist) # {}) => RaisedNamingMissing

\* C9 amended: on a table with at least one row and one column that lacks a
\* required column pick_stocks raises an error naming the missing columns
\* and main ends with it; on a table with no row or no column pick_stocks
\* returns an empty table and raises nothing.
C9_RaisesOnNonEmpty ==
    picked.outcome # "none" =>
        /\ (MissingIn(hist) # {} /\ hist.nrows > 0 /\ hist.cols # {})
              => RaisedNamingMissing
        /\ (hist.nrows = 0 \/ hist.cols = {})
              => (picked.outcome = "returned" /\ picked.table = <<>>)

\* main stopped on a table with a row that lacks two columns
C9_Witness ==
    /\ pc = "raised"
    /\ hist.nrows > 0
    /\ MissingIn(hist) = {"close", "volume"}
    /\ error.raised
    /\ error.missing = <<"close", "volume">>

---------------------------------------------------------------------------
(* Properties of upsert_prices *)

KeyOf(row) == <<row.code, ToDateStr(row.date)>>

\* the last row of df written to the key
LastWrite(df, key) ==
    LET is == {i \in 1..Len(df) : KeyOf(df[i]) = key}
        last == CHOOSE i \in is : \A j \in is : j <= i
    IN  df[last]

SevenValues(r, row) ==
    /\ r.code = row.code
    /\ r.date = ToDateStr(row.date)
    /\ r.open = row.open
    /\ r.high = row.high
    /\ r.low = row.low
    /\ r.close = row.close
    /\ r.volume = row.volume

\* what a call that wrote df made of table before
WrittenAsStated(before, after, df) ==
    LET written == {KeyOf(df[i]) : i \in 1..Len(df)}
    IN  /\ \A key \in written :
              \E r \in Rows(after) :
                  /\ <<r.code, r.date>> = key
                  /\ SevenValues(r, LastWrite(df, key))
        /\ \A r \in Rows(after) :
              <<r.code, r.date>> \notin written => r \in Rows(before)
        /\ \A r \in Rows(before) :
              <<r.code, r.date>> \notin written => r \in Rows(after)

\* C6: the prices table holds at most one row per (code, date); the commit
\* of a call leaves, under every key the call wrote, the seven values of the
\* last row of the passed table with that key, and leaves the rows of all
\* other keys as they were.
C6_LastWriteWins ==
    /\ []OneRowPerKey(store)
    /\ [][(pc = "upsert" /\ pc' = "stored")
             => WrittenAsStated(store, store', result)]_vars

\* a call has written one key twice with different values, over a row the
\* table held, and the table holds a row of another key
C6_Witness ==
    /\ pc = "stored"
    /\ Len(result) = 2
    /\ KeyOf(result[1]) = KeyOf(result[2])
    /\ result[1].close # result[2].close
    /\ DbRow(result[2]) \in Rows(store)
    /\ DbRow(result[1]) \notin Rows(store)
    /\ \E r \in Rows(store) : <<r.code, r.date>> # KeyOf(result[2])

---------------------------------------------------------------------------
(* Properties of the filter cascade *)

CodesIn(rows) == {rows[i].code : i \in 1..Len(rows)}

\* for each of the places at: how many of them hold a row of an earlier date
EarlierRows(rows, at) ==
    [j \in at |->
        Cardinality({q \in at : IsoLess(rows[q].date, rows[j].date)})]

\* the rows at the places at, the one with k - 1 earlier rows as the k-th
InOrder(rows, at) ==
    CHOOSE g \in {[k \in 1..Cardinality(at) |->
                      rows[CHOOSE j \in at : earlier[j] = k - 1]] :
                  earlier \in {EarlierRows(rows, at)}} : TRUE

\* the rows of a ticker in the table, oldest first
Chronological(rows, c) ==
    CHOOSE g \in {InOrder(rows, at) :
                     at \in {{j \in 1..Len(rows) : rows[j].code = c}}} : TRUE

\* 80 times the slope of ma20 over the last 5 rows of a history of at least
\* 24 rows: the sum of the last 20 closes less the sum of the 20 closes that
\* end 4 rows earlier
SlopeTimes80(g) ==
    SumSeq([j \in 1..20 |-> g[Len(g) - 20 + j].close])
        - SumSeq([j \in 1..20 |-> g[Len(g) - 24 + j].close])

\* the gates other than the one on the slope let the ticker pass
PassesOtherGates(g) ==
    /\ Len(g) >= 24
    /\ ~LiquidityFails(LastRows(g, 10))
    /\ PriceAboveMa20(g)
    /\ ~RangeFails(LastRows(g, 10))
    /\ ~VolatilityFails(LastRows(g, 5))
    /\ AvgDistanceMilli(g) <= MaxDistanceMilli(LastRows(g, 5))

\* C11: a ticker that passes the other gates with ma20_slope exactly 0.8 is
\* returned in Group A and not in Group B; a ticker with ma20_slope 2.0 or
\* more is not returned.
C11_SlopeBoundary ==
    (picked.outcome = "returned" /\ prices # <<>>) =>
        \A c \in CodesIn(prices) :
            \A g \in {Chronological(prices, c)} :
                Len(g) >= 24 =>
                  /\ (SlopeTimes80(g) = 64 /\ PassesOtherGates(g)) =>
                        /\ c \in CodesOf(OutA)
                        /\ c \notin CodesOf(OutB)
                  /\ SlopeTimes80(g) >= 160 => c \notin CodesOf(picked.table)

\* a call that returned a ticker with slope exactly 0.8 in Group A, beside
\* another ticker
C11_Witness ==
    /\ picked.outcome = "returned"
    /\ CodesIn(prices) # {TheTicker}
    /\ LET g == Chronological(prices, TheTicker)
       IN  /\ Len(g) >= 24
           /\ SlopeTimes80(g) = 64
           /\ TheTicker \in CodesOf(OutA)
           /\ TheTicker \notin CodesOf(OutB)

\* the history of the scenario: close 100, volume 2,000,000 and
\* high - low = 1 on every row, and on the last 5 rows an open of 101, which
\* puts the mean of open and close at 100.5
FlatHistory(g) ==
    /\ \A i \in 1..Len(g) :
          /\ g[i].close = 100
          /\ g[i].volume = 2000000
          /\ g[i].high - g[i].low = 1
    /\ \A i \in (Len(g) - 4)..Len(g) : g[i].open = 101

ReturnedFlatInGroupB(c) ==
    \E i \in 1..Len(OutB) :
        /\ OutB[i].code = c
        /\ OutB[i].ma20_slope = 0
        /\ OutB[i].volatility = 0

\* C12 as stated: the ticker with exactly 20 such bars is returned in
\* Group B.
C12_TwentyFlatBars ==
    picked.outcome = "returned" =>
        \A c \in CodesIn(prices) :
            \A g \in {Chronological(prices, c)} :
                (Len(g) = 20 /\ FlatHistory(g)) => ReturnedFlatInGroupB(c)

\* C12 amended: the ticker with 24 or more such bars is returned in Group B
\* with slope 0 and volatility 0; with 20 bars ma20 is defined on the last
\* row only and the ticker is not returned.
C12_FlatBarsFrom24 ==
    picked.outcome = "returned" =>
        \A c \in CodesIn(prices) :
            \A g \in {Chronological(prices, c)} :
                (Len(g) >= 10 /\ FlatHistory(g)) =>
                  /\ Len(g) >= 24 => ReturnedFlatInGroupB(c)
                  /\ Len(g) < 24 => c \notin CodesOf(picked.table)

\* the ticker with 24 such bars, returned in Group B
C12_Witness ==
    /\ picked.outcome = "returned"
    /\ Len(Chronological(prices, TheTicker)) = 24
    /\ FlatHistory(Chronological(prices, TheTicker))
    /\ ReturnedFlatInGroupB(TheTicker)

\* the sum of the volumes of the last 10 rows (of all rows when there are
\* fewer)
VolumeOfLast10(g) ==
    SumSeq([k \in 1..Min(10, Len(g)) |-> g[Len(g) - Min(10, Len(g)) + k].volume])

\* the gates behind the one on the volume let the ticker pass
PassesLaterGates(g) ==
    /\ Len(g) >= 24
    /\ PriceAboveMa20(g)
    /\ ~RangeFails(LastRows(g, 10))
    /\ SlopeTimes80(g) < 160
    /\ ~VolatilityFails(LastRows(g, 5))
    /\ AvgDistanceMilli(g) <= MaxDistanceMilli(LastRows(g, 5))

DecisionFor(results, c) ==
    {results[i] : i \in {j \in 1..Len(results) : results[j].code = c}}

\* C17: what the cascade decides for a ticker, and the fields of its
\* candidate, depend on the rows of that ticker alone: a table that also
\* holds the rows of other tickers, in any order of the rows, gives for the
\* ticker what its own rows in chronological order give, and the run that
\* was made recorded the same.
C17_CascadeOwnHistory ==
    picked.outcome = "returned" =>
        \A c \in CodesIn(prices) :
            \A own \in {DecisionFor(Results(Chronological(prices, c)), c)} :
                /\ DecisionFor(Results(prices), c) = own
                /\ DecisionFor(hist.cands, c) = own

\* the ticker passed the cascade in a table that holds another ticker's
\* rows among its own, not in chronological order
C17_Witness ==
    /\ picked.outcome = "returned"
    /\ OthersIn(prices) # {}
    /\ SelectSeq(prices, LAMBDA r : r.code = TheTicker)
           # Chronological(prices, TheTicker)
    /\ DecisionFor(hist.cands, TheTicker) # {}

\* the ticker passes every gate of the cascade
Survives(g) ==
    /\ VolumeOfLast10(g) >= 10000000
    /\ PassesLaterGates(g)

\* C14: on a table with all required columns pick_stocks does not raise;
\* when the table has no rows, or no ticker in it has the rows and passes
\* the gates, pick_stocks returns no candidate, and a run of main that got
\* no candidate ends normally, with no report written and no error.
C14_EmptyResultIsNormal ==
    hist.cols = FullColumns =>
        /\ picked.outcome # "raised"
        /\ pc # "raised"
        /\ (/\ picked.outcome = "returned"
            /\ \A c \in CodesIn(prices) :
                  ~Survives(Chronological(prices, c)))
              => picked.table = <<>>
        /\ (pc = "done" /\ picked.table = <<>>)
              => (report = NoReport /\ error = NoError)

\* main ended normally on bars of a ticker that a gate excluded
C14_Witness ==
    /\ pc = "done"
    /\ Len(prices) >= 24
    /\ picked.outcome = "returned"
    /\ picked.table = <<>>
    /\ report = NoReport

---------------------------------------------------------------------------
(* Properties of a run of main *)

\* C15: once the table fetch_prices_yf returned has been upserted, the
\* latest date the store holds for any ticker is not later than today.
C15_MaxDateNotAfterToday ==
    pc = "stored" =>
        \A c \in DOMAIN ExistingRange(store) :
            ~IsoLess(today, ExistingRange(store)[c].max)

\* C16: a batch ends without data for any of its tickers, and its tickers
\* are reported failed, only after MAX_RETRIES attempts: an attempt that
\* raises or whose response carries no data for the batch is followed by a
\* retry while attempts remain.
C16_RetriedUntilCeiling ==
    \A b \in 1..Len(batch_log) :
        batch_log[b].got = {} => batch_log[b].attempts = MAX_RETRIES

\* the yf.download calls of the finished batches
RECURSIVE AttemptsLogged(_)
AttemptsLogged(log) ==
    IF log = <<>> THEN 0 ELSE Head(log).attempts + AttemptsLogged(Tail(log))

\* C20: every finished batch had at least 1 and at most MAX_RETRIES
\* download attempts, a batch that did not complete had MAX_RETRIES, and the
\* download calls of the run are those attempts and the raised attempts of
\* the batch in progress: none is made for a batch after the attempt that
\* completed.
C20_AttemptsBounded ==
    /\ attempt \in 0..(MAX_RETRIES - 1)
    /\ \A b \in 1..Len(batch_log) :
          /\ batch_log[b].attempts \in 1..MAX_RETRIES
          /\ ~batch_log[b].ok => batch_log[b].attempts = MAX_RETRIES
    /\ pc = "batch" =>
          attempts_made = AttemptsLogged(batch_log) + attempt
    /\ pc = "returned" =>
          /\ Len(batch_log) = NumBatches(to_fetch)
          /\ attempts_made = AttemptsLogged(batch_log)

\* a call returned whose first batch completed at its third attempt and
\* whose second batch completed at its first
C20_Witness ==
    /\ pc = "returned"
    /\ Len(batch_log) = 2
    /\ batch_log[1].ok /\ batch_log[1].attempts = MAX_RETRIES
    /\ batch_log[2].ok /\ batch_log[2].attempts = 1
    /\ attempts_made = MAX_RETRIES + 1

---------------------------------------------------------------------------
(* Atomicity of upsert_prices *)

\* the prices table shows nothing of a call of upsert_prices while it runs,
\* and nothing of it after it raised or the process died
NothingUntilReturn ==
    (pc = "upsert" /\ pc' \in {"upsert", "raised", "crashed"})
        => store' = store

\* C18 as stated: a call of upsert_prices that fails or dies after some of
\* its rows were executed leaves the prices table as it was, and a call that
\* returns leaves every row it was passed in the prices table.
C18_AllOrNothing ==
    [][/\ NothingUntilReturn
       /\ (pc = "upsert" /\ pc' = "stored")
             => \A i \in 1..Len(result) : DbRow(result[i]) \in Rows(store')]_vars

\* C18, amended: a call of upsert_prices that fails or dies after some of
\* its rows were executed leaves the prices table as it was; a call that
\* returns has executed all its rows, and the table then holds for each of
\* their keys the last row of the call with that key, and the rows of the
\* other keys as before.
C18_UpsertAtomic ==
    [][/\ NothingUntilReturn
       /\ (pc = "upsert" /\ pc' = "stored")
             => (upsert_i > Len(result)
                 /\ WrittenAsStated(store, store', result))]_vars

\* a call raised after its first row was executed and before its last was,
\* and the table does not hold the first row
C18_Witness ==
    /\ pc = "raised"
    /\ upsert_i > 1
    /\ upsert_i <= Len(result)
    /\ DbRow(result[1]) \notin Rows(store)

---------------------------------------------------------------------------
(* Order of the steps of main *)

\* the positions of main that follow one another: the Freshness Resolver
\* first, then the batches, then the upsert when rows were fetched, then the
\* load, the selection and the reporting; a run may die at any place
RunOrder ==
    {<<"idle", "batch">>, <<"idle", "returned">>, <<"batch", "returned">>,
     <<"returned", "upsert">>, <<"returned", "stored">>,
     <<"upsert", "stored">>, <<"stored", "done">>,
     <<"done", "batch">>, <<"done", "returned">>,
     <<"crashed", "batch">>, <<"crashed", "returned">>,
     <<"batch", "crashed">>, <<"returned", "crashed">>,
     <<"upsert", "crashed">>, <<"stored", "crashed">>}

\* the prices table is read by the Freshness Resolver before any download
\* and is written by the commit of the upsert only
StoreWrittenByUpsertOnly ==
    /\ pc' # pc => <<pc, pc'>> \in RunOrder
    /\ (store' # store) => (pc = "upsert" /\ pc' = "stored")
    /\ (pc \in {"idle", "done", "crashed"} /\ pc' \in {"batch", "returned"})
          => to_fetch' = CodesToFetch(codes, ExistingRange(store), today)

\* C19 as stated: the steps of a run follow one another in the order
\* Freshness Resolver, downloads, upsert, load, selection, reporting; the
\* selector gets the bars the run wrote, and it runs also when every batch
\* failed or nothing needed fetching.
C19_SelectorSeesRun ==
    [][/\ StoreWrittenByUpsertOnly
       /\ (pc = "stored" /\ pc' = "done")
             => /\ \A c \in committed : \A i \in 1..Len(FullSlice(c)) :
                      DbRow(FullSlice(c)[i]) \in Range(prices')
                /\ picked'.outcome = "returned"]_vars

\* C19, amended: the steps of a run follow one another in that order; what
\* is loaded after the upsert are the rows of the prices table dated within
\* the last LOOKBACK_DAYS days, those the run wrote among them and no older
\* one; the selector runs on them when there is one, also when every batch
\* failed or nothing needed fetching, and the run ends without selection
\* and report when there is none; a report is written when the selector
\* returned a candidate.
C19_StepOrder ==
    [][/\ StoreWrittenByUpsertOnly
       /\ (pc = "stored" /\ pc' = "done")
             => /\ Range(prices') =
                      {r \in Rows(store) : IsoLess(Cutoff(today), r.date)}
                /\ \A c \in committed : \A i \in 1..Len(FullSlice(c)) :
                      IsoLess(Cutoff(today), FullSlice(c)[i].date.date)
                         => DbRow(FullSlice(c)[i]) \in Range(prices')
                /\ (picked'.outcome = "returned") = (prices' # <<>>)
                /\ (picked'.outcome = "none") = (prices' = <<>>)
                /\ report' = ReportOn(picked'.table)]_vars

\* a run ended whose upsert committed a bar the selector got and an older
\* bar it did not get
C19_Witness ==
    /\ pc = "done"
    /\ picked.outcome = "returned"
    /\ \E c \in committed : DbRow(FullSlice(c)[1]) \in Range(prices)
    /\ \E c \in committed : /\ DbRow(FullSlice(c)[1]) \in Rows(store)
                            /\ DbRow(FullSlice(c)[1]) \notin Range(prices)

---------------------------------------------------------------------------
(* Waits of fetch_prices_yf *)

\* the seconds of a time.sleep call
Seconds(sl) == (sl.secs * sl.mult2) \div 2

\* the wait stated for the n-th failed attempt of a batch, n < 3
StatedRetryWait(n, msg) ==
    IF msg \in {"Expecting value: line 1 column 1 (char 0)",
                "Failed to parse JSON response"}
    THEN n * 5 ELSE n * 3

\* the step is an attempt of the current batch in which yf.download raises
\* msg, so that there is no response
RaisesNow(msg) ==
    /\ pc = "batch"
    /\ attempts_made' = attempts_made + 1
    /\ \E base \in BaseDelays : AttemptRaises(<<>>, 0, msg, base)

\* the seconds of the sleeps i..j when they are all waits for a retry
RECURSIVE RetrySeconds(_, _)
RetrySeconds(i, j) ==
    IF i > j THEN 0 ELSE Seconds(sleeps[i]) + RetrySeconds(i + 1, j)

\* C21: the n-th failed attempt of a batch, n < 3, is followed by one wait
\* of n x 5 seconds when the error text holds "Expecting value" or "JSON"
\* and of n x 3 seconds otherwise; the 3rd failed attempt is followed by no
\* wait for a retry; the waits for the retries of one batch sum to at most
\* 15 seconds.
C21_RetryWaits ==
    /\ [][\A msg \in ErrorMsgs : RaisesNow(msg) =>
             IF attempt + 1 < 3
             THEN /\ Len(sleeps') = Len(sleeps) + 1
                  /\ sleeps'[Len(sleeps')].why = "retry"
                  /\ Seconds(sleeps'[Len(sleeps')])
                        = StatedRetryWait(attempt + 1, msg)
                  /\ attempt' = attempt + 1
             ELSE \A i \in (Len(sleeps) + 1)..Len(sleeps') :
                      sleeps'[i].why # "retry"]_vars
    /\ [](\A i, j \in 1..Len(sleeps) :
             (i <= j /\ \A k \in i..j : sleeps[k].why = "retry")
                => RetrySeconds(i, j) <= 15)

\* the first batch of several failed 3 times, with a timeout first and a
\* JSON error second: it waited 3 and 10 seconds for its retries and then
\* for the next batch
C21_Witness ==
    /\ Len(batch_log) >= 1
    /\ ~batch_log[1].ok
    /\ Len(sleeps) >= 4
    /\ sleeps[2].why = "retry" /\ Seconds(sleeps[2]) = 3
    /\ sleeps[3].why = "retry" /\ Seconds(sleeps[3]) = 10
    /\ sleeps[4].why = "batch"

\* the waits between batches of the call, in order
BatchSleeps == SelectSeq(sleeps, LAMBDA sl : sl.why = "batch")

\* how many of the first i batches, ending with the i-th, exhausted their
\* retries one after the other
RECURSIVE TrailingFailed(_)
TrailingFailed(i) ==
    IF i = 0 THEN 0
    ELSE IF batch_log[i].ok THEN 0
    ELSE 1 + TrailingFailed(i - 1)

\* C22: there is one wait after each batch but the last and none after the
\* last; the wait after the i-th batch is a base delay of 2 to 4 seconds
\* times (1 + 0.5 x k) with k the number of batches, ending with the i-th,
\* that exhausted their retries one after the other; consecutive_failures
\* is that number, 0 at the start and after a batch that completed.
C22_WaitBetweenBatches ==
    /\ pc = "idle" => sleeps = <<>>
    /\ pc = "batch" =>
          /\ Len(BatchSleeps) = Len(batch_log)
          /\ (attempt = 0 /\ batch_log # <<>>)
                => sleeps[Len(sleeps)].why = "batch"
    /\ pc = "returned" =>
          Len(BatchSleeps) = Max(NumBatches(to_fetch) - 1, 0)
    /\ \A i \in 1..Len(BatchSleeps) :
          /\ BatchSleeps[i].secs \in 2..4
          /\ BatchSleeps[i].mult2 = 2 + TrailingFailed(i)
    /\ pc \in {"batch", "returned"} =>
          consecutive_failures = TrailingFailed(Len(batch_log))

\* after two batches that exhausted their retries one after the other the
\* wait was twice the base delay, and after a third batch, which completed,
\* the call returned without a wait
C22_Witness ==
    /\ pc = "returned"
    /\ Len(batch_log) = 3
    /\ ~batch_log[1].ok /\ ~batch_log[2].ok /\ batch_log[3].ok
    /\ Len(BatchSleeps) = 2
    /\ BatchSleeps[2].mult2 = 4
    /\ consecutive_failures = 0

\* the places of the warm-up waits among the waits of the call
WarmUpAt == {i \in 1..Len(sleeps) : sleeps[i].why = "initial"}

\* C23: a call whose to_fetch makes more than one batch waits INITIAL_DELAY
\* seconds once, before its first download attempt and before any other
\* wait; a call with one batch or none does not make that wait.
C23_WarmUpOnce ==
    pc \in {"batch", "returned"} =>
        /\ WarmUpAt = IF NumBatches(to_fetch) > 1 THEN {1} ELSE {}
        /\ \A i \in WarmUpAt : Seconds(sleeps[i]) = INITIAL_DELAY
        /\ attempts_made = 0 => Len(sleeps) = Cardinality(WarmUpAt)

\* a call of several batches returned after attempts and other waits, with
\* the warm-up wait as its first wait
C23_Witness ==
    /\ pc = "returned"
    /\ NumBatches(to_fetch) > 1
    /\ attempts_made > NumBatches(to_fetch)
    /\ Len(sleeps) > 2
    /\ sleeps[1].why = "initial"

---------------------------------------------------------------------------
(* Order of the rows pick_stocks returns *)

\* the place of a candidate among those the cascade found
PlaceOf(c) == CHOOSE i \in 1..Len(hist.cands) : hist.cands[i] = c

\* the rows of s are in the order the cascade found them
InFoundOrder(s) ==
    \A i, j \in 1..Len(s) : i < j => PlaceOf(s[i]) < PlaceOf(s[j])

\* x comes before y in the ranking: smaller distance, or equal distance and
\* found earlier
RanksBefore(x, y) ==
    \/ x.avg_ma20_distance < y.avg_ma20_distance
    \/ /\ x.avg_ma20_distance = y.avg_ma20_distance
       /\ PlaceOf(x) < PlaceOf(y)

\* out is pool cut to 6 by the ranking
RankedCut(out, pool) ==
    /\ \A i, j \in 1..Len(out) : i < j => RanksBefore(out[i], out[j])
    /\ \A x \in Range(out) : \A y \in Range(pool) \ Range(out) :
          RanksBefore(x, y)

\* the order stated for the rows of one group
OrderedAsStated(in, out) ==
    LET P == SelectSeq(in, LAMBDA c : ~c.is_lowest_close)
    IN  IF Len(in) > 6 /\ Len(P) > 6 THEN RankedCut(out, P)
        ELSE IF Len(in) > 6 /\ Len(P) = 0 THEN RankedCut(out, in)
        ELSE InFoundOrder(out)

\* C24: the rows returned are those of group A followed by those of group
\* B; no ticker is returned twice, every row returned is a candidate found,
\* and every candidate found is in exactly one of the groups; a group cut
\* to 6 by the ranking is in ascending avg_ma20_distance with candidates of
\* equal distance in the order they were found, at the cut too; a group
\* that was not ranked is in the order its candidates were found.
C24_OutputOrder ==
    picked.outcome = "returned" =>
        /\ picked.table = OutA \o OutB
        /\ \A i, j \in 1..Len(picked.table) :
              picked.table[i].code = picked.table[j].code => i = j
        /\ Range(picked.table) \subseteq Range(hist.cands)
        /\ \A c \in Range(hist.cands) : InGroupA(c) # InGroupB(c)
        /\ OrderedAsStated(InA, OutA)
        /\ OrderedAsStated(InB, OutB)

\* a candidate of group B was found first and 7 of group A after it; group
\* A was cut by the ranking between two candidates of equal distance, and
\* the rows of group A are returned first
C24_Witness ==
    /\ picked.outcome = "returned"
    /\ InGroupB(hist.cands[1])
    /\ Len(InA) = 7
    /\ Len(OutA) = 6
    /\ \E y \in Range(InA) \ Range(OutA) :
          y.avg_ma20_distance = OutA[6].avg_ma20_distance
    /\ InGroupA(picked.table[1])
    /\ picked.table[Len(picked.table)] = hist.cands[1]

---------------------------------------------------------------------------
(* The feature table of pick_stocks *)

\* the places in the table of the bars of the code dated not later than day
BarsUpTo(rows, c, day) ==
    {j \in 1..Len(rows) : rows[j].code = c /\ ~IsoLess(day, rows[j].date)}

\* of the places at, those of the 20 most recent bars
MostRecent20(rows, at) ==
    {j \in at :
        Cardinality({k \in at : IsoLess(rows[j].date, rows[k].date)}) < 20}

RECURSIVE SumOfCloses(_, _)
SumOfCloses(rows, at) ==
    IF at = {} THEN 0
    ELSE LET j == CHOOSE k \in at : TRUE
         IN  rows[j].close + SumOfCloses(rows, at \ {j})

\* C25: in the feature table, ma20 of the row of a ticker and a date is
\* defined exactly when the table holds at least 20 bars of that ticker
\* dated not later, and it is then the mean of the closes of the 20 most
\* recent of those bars.
C25_Ma20Defined ==
    picked.outcome = "returned" =>
        \A c \in CodesIn(prices) :
            \A g \in {HistoryOf(prices, c)} :
                \A i \in 1..Len(g) :
                    \A at \in {BarsUpTo(prices, c, g[i].date)} :
                        /\ ~Ma20IsNaN(g, i) <=> Cardinality(at) >= 20
                        /\ Cardinality(at) >= 20 =>
                              Ma20x20(g, i)
                                 = SumOfCloses(prices, MostRecent20(prices, at))

---------------------------------------------------------------------------
(* The top_k argument of pick_stocks *)

\* values of TOP_K: below the 12 of the default, the default, and above
TopKs == {1, 6, 12, 13}

---------------------------------------------------------------------------
(* fetch_prices_yf and the prices table *)

\* the positions of a run of main from the call of fetch_prices_yf to the
\* step that ends the call: its return or the death of the process
InFetch == pc \in {"idle", "done", "crashed", "batch"}

\* C27: fetch_prices_yf never modifies the Price Store: between its call and
\* its return, or the crash that ends it, the prices table stays as it was.
\* Downloaded bars become visible in the table only through the one call of
\* upsert_prices main makes after fetch_prices_yf returned: the table changes
\* at the commit of that call only, by rows of the returned table, and the
\* call is entered from the return of fetch_prices_yf only.
C27_FetchLeavesStore ==
    [][/\ InFetch => store' = store
       /\ (pc # "upsert" /\ pc' = "upsert") => pc = "returned"
       /\ (pc = "returned" /\ pc' \in {"upsert", "stored"})
             => result' = result /\ store' = store
       /\ store' # store
             => /\ pc = "upsert" /\ pc' = "stored"
                /\ Rows(store') \ Rows(store)
                      \subseteq {DbRow(result[i]) : i \in 1..Len(result)}]_vars

\* fetch_prices_yf has returned bars of two batches that the prices table
\* does not hold
C27_Witness ==
    /\ pc = "returned"
    /\ Len(batch_log) > 1
    /\ \E i \in 1..Len(result) : /\ result[i].code = to_fetch[1]
                                 /\ DbRow(result[i]) \notin Rows(store)
    /\ \E i \in 1..Len(result) :
          /\ result[i].code = to_fetch[Len(to_fetch)]
          /\ result[i].code # to_fetch[1]
          /\ DbRow(result[i]) \notin Rows(store)

---------------------------------------------------------------------------
(* The batches of fetch_prices_yf *)

\* ceil(n / BATCH_SIZE)
CeilOfBatches(n) ==
    CHOOSE m \in 0..n :
        m * BATCH_SIZE >= n /\ (m > 0 => (m - 1) * BATCH_SIZE < n)

\* the tickers of the batches finished so far, batch after batch
BatchesDone == Flatten([i \in 1..Len(batch_log) |-> batch_log[i].codes])

\* the rows of the tickers of to_fetch whose batch got rows for them, in the
\* order of to_fetch
RowsInListOrder ==
    Flatten([j \in 1..Len(to_fetch) |->
        IF to_fetch[j] \in batch_log[((j - 1) \div BATCH_SIZE) + 1].got
        THEN FullSlice(to_fetch[j]) ELSE <<>>])

\* C28: to_fetch is split into ceil(n / BATCH_SIZE) contiguous batches in
\* list order, every position of the list in exactly one batch; each batch
\* holds between 1 and BATCH_SIZE tickers and all but possibly the last hold
\* exactly BATCH_SIZE; the batches are processed in list order, and the rows
\* returned follow the order of the batches and within a batch the order of
\* its tickers.
C28_Batches ==
    LET n == Len(to_fetch)
        m == Len(batch_log)
    IN  /\ \A i \in 1..m :
              LET b == batch_log[i].codes
              IN  /\ Len(b) \in 1..BATCH_SIZE
                  /\ i < CeilOfBatches(n) => Len(b) = BATCH_SIZE
                  /\ (i - 1) * BATCH_SIZE + Len(b) <= n
                  /\ \A j \in 1..Len(b) :
                        b[j] = to_fetch[(i - 1) * BATCH_SIZE + j]
        /\ pc = "batch" => m = batch_idx /\ m < CeilOfBatches(n)
        /\ pc = "returned"
              => /\ m = CeilOfBatches(n)
                 /\ BatchesDone = to_fetch
                 /\ result = RowsInListOrder

\* a call has returned the rows of the first and of the last of three
\* batches, the last one not full, and none of the batch between
C28_Witness ==
    /\ pc = "returned"
    /\ Len(batch_log) = MaxBatches
    /\ Len(batch_log[MaxBatches].codes) < BATCH_SIZE
    /\ batch_log[1].got # {}
    /\ batch_log[2].got = {}
    /\ batch_log[MaxBatches].got # {}
    /\ result # <<>>

---------------------------------------------------------------------------
(* The failed list of fetch_prices_yf *)

\* how often the ticker occurs in the list
TimesIn(fs, c) == Cardinality({i \in 1..Len(fs) : fs[i] = c})

\* C29: at every point of a call each ticker of to_fetch occurs at most once
\* in the failed list, so the list is never longer than to_fetch, the count
\* of successful tickers logged at the end, len(to_fetch) - len(failed), is
\* never negative, and it is the number of distinct tickers with rows in the
\* returned table (stated for the calls whose to_fetch holds no ticker
\* twice).
C29_FailedAtMostOnce ==
    NoRepeats(to_fetch) =>
        /\ \A c \in Range(to_fetch) : TimesIn(failed_stocks, c) <= 1
        /\ Len(failed_stocks) <= Len(to_fetch)
        /\ pc = "returned"
              => Len(to_fetch) - Len(failed_stocks)
                    = Cardinality(CodesOf(result))

---------------------------------------------------------------------------
(* Termination of fetch_prices_yf *)

\* C30: for every to_fetch and every pattern of failures fetch_prices_yf
\* eventually returns; it makes at most MAX_RETRIES * ceil(n / BATCH_SIZE)
\* download attempts in total; each batch is eventually completed or marked
\* failed, and the last batch is always reached.
C30_Terminates ==
    /\ [](attempts_made <= MAX_RETRIES * CeilOfBatches(Len(to_fetch)))
    /\ [](pc = "returned" => Len(batch_log) = CeilOfBatches(Len(to_fetch)))
    /\ \A b \in 0..(MaxCodes - 1) :
          (pc = "batch" /\ batch_idx = b) ~> (Len(batch_log) > b)
    /\ <>(pc = "returned")

\* a call has returned after every attempt of each of its batches raised, the
\* last batch not full
C30_Witness ==
    /\ pc = "returned"
    /\ Len(batch_log) > 1
    /\ Len(batch_log[Len(batch_log)].codes) < BATCH_SIZE
    /\ \A b \in 1..Len(batch_log) : ~batch_log[b].ok
    /\ attempts_made = MAX_RETRIES * Len(batch_log)

====
